---- MODULE Spec2Model ----
(***************************************************************************)
(* A model of the skip list of src/src/lib.rs: the node graph (sentinel    *)
(* plus heap-allocated nodes with per-level forward pointers), the         *)
(* operations get / insert / delete, the three iterators and the           *)
(* container's teardown.                                                   *)
(***************************************************************************)
EXTENDS Integers, Sequences, FiniteSets, TLC

\* ---------------------------------------------------------------- bounds
MaxKey == 2          \* keys are 1..MaxKey
MaxVal == 2          \* values are 1..MaxVal
MaxLevelCap == 3     \* SkipList::new(max_level) is called with 0..MaxLevelCap

Keys == 1..MaxKey
Vals == 1..MaxVal
None == 0            \* Option::None of a value
Panic == -2          \* the call unwound with a panic
Null == -1           \* Option::None of a node pointer
head == 0            \* SkipList.head: the address of the sentinel
Uninit == 0          \* MaybeUninit::uninit() payload of the sentinel
\* Addresses of ordinary nodes: one more than there are keys.
NodeIds == 1..(MaxKey + 1)

VARIABLES
    max_level,   \* SkipList.max_level
    nodes,       \* the heap: address -> Node, for the addresses now allocated
    len,         \* SkipList.len
    level,       \* SkipList.level
    phase,       \* "live", "consumed" (into_iter ran), "dropped", "aborted"
    it,          \* the iterator in use: [kind, len, head]
    items,       \* nodes whose &mut V (yielded by iter_mut) is still held
    yielded,     \* what the iterator in use has yielded so far
    dfree,       \* TRUE once an address not allocated was released (double free)
    uaf,         \* TRUE once a released node was read
    ref,         \* reference map: key -> value or None
    last,        \* the last call: [op, k, v]
    ret          \* what the last call returned

vars == <<max_level, nodes, len, level, phase, it, items, yielded, dfree,
          uaf, ref, last, ret>>

\* ------------------------------------------------------------ Node, new
Slots(ml) == 0..(ml - 1)

NodeNew(key, value, lvl, ml) ==
    [key |-> key, value |-> value, level |-> lvl, next |-> [l \in Slots(ml) |-> Null]]

sigil(ml) ==
    [key |-> Uninit, value |-> Uninit, level |-> 0, next |-> [l \in Slots(ml) |-> Null]]

NoIter == [kind |-> "none", len |-> 0, head |-> Null]

Init ==
    /\ max_level \in 0..MaxLevelCap
    /\ nodes = (head :> sigil(max_level))
    /\ len = 0
    /\ level = 0
    /\ phase = "live"
    /\ it = NoIter
    /\ items = {}
    /\ yielded = <<>>
    /\ dfree = FALSE
    /\ uaf = FALSE
    /\ ref = [k \in Keys |-> None]
    /\ last = [op |-> "new", k |-> 0, v |-> 0]
    /\ ret = None

\* --------------------------------------------------------------- search
\* The inner `while let Some(next) = node.next[l]` loop of get and insert:
\* the node the loop stops at, and the node with an equal key if it met one.
RECURSIVE Walk(_, _, _, _)
Walk(h, node, l, k) ==
    LET next == h[node].next[l] IN
    IF next = Null THEN [node |-> node, hit |-> Null]
    ELSE IF h[next].key = k THEN [node |-> node, hit |-> next]
    ELSE IF h[next].key < k THEN Walk(h, next, l, k)
    ELSE [node |-> node, hit |-> Null]

\* get: levels n-1, n-2, .., 0 from `node`; returns at the first equal key.
RECURSIVE GetFrom(_, _, _, _)
GetFrom(h, node, n, k) ==
    IF n = 0 THEN None
    ELSE LET w == Walk(h, node, n - 1, k) IN
         IF w.hit # Null THEN h[w.hit].value
         ELSE GetFrom(h, w.node, n - 1, k)

\* get with the descent started one level too low: for l in (0..level-1).rev()
get_SkipsTopLevel(h, lvl, k) == GetFrom(h, head, IF lvl > 0 THEN lvl - 1 ELSE 0, k)

get(h, lvl, k) == GetFrom(h, head, lvl, k)

\* insert's descent without the equal-key test: it never reports a hit.
RECURSIVE InsertDescent_NoEqualCheck(_, _, _, _, _)
InsertDescent_NoEqualCheck(h, node, n, k, updates) ==
    IF n = 0 THEN [hit |-> Null, updates |-> updates]
    ELSE LET w == Walk(h, node, n - 1, k) IN
         InsertDescent_NoEqualCheck(h, w.node, n - 1, k,
                                    [updates EXCEPT ![n - 1] = w.node])

\* insert's descent handing back the node before the equal key (`node`
\* instead of `next`) as the one to update.
RECURSIVE InsertDescent_HitIsPredecessor(_, _, _, _, _)
InsertDescent_HitIsPredecessor(h, node, n, k, updates) ==
    IF n = 0 THEN [hit |-> Null, updates |-> updates]
    ELSE LET w == Walk(h, node, n - 1, k) IN
         IF w.hit # Null THEN [hit |-> w.node, updates |-> updates]
         ELSE InsertDescent_HitIsPredecessor(h, w.node, n - 1, k,
                                             [updates EXCEPT ![n - 1] = w.node])

\* insert's descent: returns at the first equal key (hit), recording the
\* predecessor of each completed level in updates.
RECURSIVE InsertDescent(_, _, _, _, _)
InsertDescent(h, node, n, k, updates) ==
    IF n = 0 THEN [hit |-> Null, updates |-> updates]
    ELSE LET w == Walk(h, node, n - 1, k) IN
         IF w.hit # Null THEN [hit |-> w.hit, updates |-> updates]
         ELSE InsertDescent(h, w.node, n - 1, k, [updates EXCEPT ![n - 1] = w.node])

\* delete's descent taking the node a level's loop stopped before as the
\* target, whether or not its key is equal.
RECURSIVE DeleteDescent_NoKeyCheck(_, _, _, _, _, _)
DeleteDescent_NoKeyCheck(h, node, n, k, updates, target) ==
    IF n = 0 THEN [target |-> target, updates |-> updates]
    ELSE LET w == Walk(h, node, n - 1, k)
             stop == h[w.node].next[n - 1]
         IN DeleteDescent_NoKeyCheck(h, w.node, n - 1, k,
                                     [updates EXCEPT ![n - 1] = w.node],
                                     IF stop # Null THEN stop ELSE target)

\* delete's descent: an equal key sets target and breaks the level's loop,
\* the predecessor is recorded and the descent goes on to the level below.
RECURSIVE DeleteDescent(_, _, _, _, _, _)
DeleteDescent(h, node, n, k, updates, target) ==
    IF n = 0 THEN [target |-> target, updates |-> updates]
    ELSE LET w == Walk(h, node, n - 1, k) IN
         DeleteDescent(h, w.node, n - 1, k, [updates EXCEPT ![n - 1] = w.node],
                       IF w.hit # Null THEN w.hit ELSE target)

\* A draw over 1..=max_level.
random_level_Inclusive(ml) == 1..ml

\* A draw over 0..=max_level.
random_level_FromZeroInclusive(ml) == 0..ml

\* rng.gen_range(1..max_level): the levels a draw can give (none: it panics).
random_level(ml) == 1..(ml - 1)

\* updates.iter_mut().take(level).skip(self.level): slots self.level..level-1
\* are set to the sentinel when the drawn level is above the list's.
RaiseUpdates(updates, cur, lvl) ==
    [l \in DOMAIN updates |->
        IF lvl > cur /\ l >= cur /\ l < lvl THEN head ELSE updates[l]]

\* self.level = level outside the `if level > self.level`.
NewLevel_Always(cur, lvl) == lvl

\* self.level never raised.
NewLevel_Never(cur, lvl) == cur

\* if level > self.level { .. self.level = level }: the list's level after
\* a draw of lvl.
NewLevel(cur, lvl) == IF lvl > cur THEN lvl ELSE cur

\* The splice loop linking the node at level 0 only.
Link_Level0Only(h, node, updates, l, lvl) ==
    LET ln == updates[0] IN
    IF lvl = 0 \/ ln = Null THEN h
    ELSE [h EXCEPT ![node].next[0] = h[ln].next[0], ![ln].next[0] = node]

\* The splice loop with ln.next[l] = Some(node) only where ln had no successor.
RECURSIVE Link_PredKeepsSuccessor(_, _, _, _, _)
Link_PredKeepsSuccessor(h, node, updates, l, lvl) ==
    IF l >= lvl THEN h
    ELSE LET ln == updates[l] IN
         IF ln = Null THEN Link_PredKeepsSuccessor(h, node, updates, l + 1, lvl)
         ELSE LET h1 == [h EXCEPT ![node].next[l] = h[ln].next[l]]
                  h2 == IF h[ln].next[l] = Null
                        THEN [h1 EXCEPT ![ln].next[l] = node] ELSE h1
              IN Link_PredKeepsSuccessor(h2, node, updates, l + 1, lvl)

\* The splice loop of insert over l = from..lvl-1.
RECURSIVE Link(_, _, _, _, _)
Link(h, node, updates, l, lvl) ==
    IF l >= lvl THEN h
    ELSE LET ln == updates[l] IN
         IF ln = Null THEN Link(h, node, updates, l + 1, lvl)
         ELSE LET h1 == [h EXCEPT ![node].next[l] = h[ln].next[l]]
                  h2 == [h1 EXCEPT ![ln].next[l] = node]
              IN Link(h2, node, updates, l + 1, lvl)

\* delete unlinking the node from level 0 only.
Unlink_Level0Only(h, node, updates, l, lvl) ==
    LET ln == updates[0] IN
    IF lvl = 0 \/ ln = Null THEN h
    ELSE [h EXCEPT ![ln].next[0] = h[node].next[0]]

\* The unlink loop of delete over l = from..node.level-1.
RECURSIVE Unlink(_, _, _, _, _)
Unlink(h, node, updates, l, lvl) ==
    IF l >= lvl THEN h
    ELSE LET ln == updates[l] IN
         IF ln = Null THEN Unlink(h, node, updates, l + 1, lvl)
         ELSE Unlink([h EXCEPT ![ln].next[l] = h[node].next[l]],
                     node, updates, l + 1, lvl)

\* The node is never handed back to the allocator.
Free_Forgotten(h, p) == h

\* Box::from_raw(p) followed by the box's drop.
Free(h, p) == [m \in DOMAIN h \ {p} |-> h[m]]

\* Box::leak(Box::new(..)) for a node of key k: some address not allocated.
\* The code never compares or orders addresses, so the model fixes the
\* allocator's choice: the address numbered like the key when it is free,
\* the lowest free one otherwise.
CanAlloc(h) == NodeIds \ DOMAIN h # {}
Fresh(h, k) ==
    IF k \in NodeIds \ DOMAIN h THEN k
    ELSE CHOOSE n \in NodeIds \ DOMAIN h : \A m \in NodeIds \ DOMAIN h : n <= m

\* &mut self and self calls need the list alive and no outstanding borrow.
Exclusive == phase = "live" /\ it.kind = "none" /\ items = {}
\* &self calls need the list alive.
Shared == phase = "live"

\* ------------------------------------------------------------ operations
Get(k) ==
    /\ Shared
    /\ ret' = get(nodes, level, k)
    /\ last' = [op |-> "get", k |-> k, v |-> 0]
    /\ UNCHANGED <<max_level, nodes, len, level, phase, it, items, yielded,
                   dfree, uaf, ref>>

InsertUpdate(k, v) ==
    LET d == InsertDescent(nodes, head, level, k, [l \in Slots(max_level) |-> Null]) IN
    /\ Exclusive
    /\ d.hit # Null
    /\ nodes' = [nodes EXCEPT ![d.hit].value = v]
    /\ ret' = nodes[d.hit].value
    /\ last' = [op |-> "insert", k |-> k, v |-> v]
    /\ ref' = [ref EXCEPT ![k] = v]
    /\ UNCHANGED <<max_level, len, level, phase, it, items, yielded, dfree, uaf>>

InsertNew(k, v) ==
    LET d == InsertDescent(nodes, head, level, k, [l \in Slots(max_level) |-> Null]) IN
    /\ Exclusive
    /\ d.hit = Null
    /\ CanAlloc(nodes)
    /\ \E lvl \in random_level(max_level) :
        LET updates == RaiseUpdates(d.updates, level, lvl)
            node == Fresh(nodes, k)
            h0 == nodes @@ (node :> NodeNew(k, v, lvl, max_level))
        IN /\ level' = NewLevel(level, lvl)
           /\ nodes' = Link(h0, node, updates, 0, lvl)
    /\ len' = len + 1
    /\ ret' = None
    /\ last' = [op |-> "insert", k |-> k, v |-> v]
    /\ ref' = [ref EXCEPT ![k] = v]
    /\ UNCHANGED <<max_level, phase, it, items, yielded, dfree, uaf>>

\* No equal key and an empty range 1..max_level: gen_range panics before
\* anything was written.
InsertPanic(k, v) ==
    LET d == InsertDescent(nodes, head, level, k, [l \in Slots(max_level) |-> Null]) IN
    /\ Exclusive
    /\ d.hit = Null
    /\ random_level(max_level) = {}
    /\ ret' = Panic
    /\ last' = [op |-> "insert", k |-> k, v |-> v]
    /\ UNCHANGED <<max_level, nodes, len, level, phase, it, items, yielded,
                   dfree, uaf, ref>>

Delete(k) ==
    LET d == DeleteDescent(nodes, head, level, k, [l \in Slots(max_level) |-> Null], Null)
        node == d.target
    IN
    /\ Exclusive
    /\ last' = [op |-> "delete", k |-> k, v |-> 0]
    /\ IF node # Null
       THEN /\ nodes' = Free(Unlink(nodes, node, d.updates, 0, nodes[node].level), node)
            /\ len' = len - 1
            /\ ret' = nodes[node].value
       ELSE /\ ret' = None
            /\ UNCHANGED <<nodes, len>>
    /\ ref' = [ref EXCEPT ![k] = None]
    /\ UNCHANGED <<max_level, level, phase, it, items, yielded, dfree, uaf>>

\* ------------------------------------------------------------- iterators
\* self.head.as_ref().next[0] of iter, iter_mut, into_iter and drop: the
\* index is out of bounds, and the call panics, when max_level = 0.
HasSlot0 == max_level >= 1

IterStart(kind) ==
    /\ Shared
    /\ it.kind = "none"
    /\ items = {}
    /\ last' = [op |-> kind, k |-> 0, v |-> 0]
    /\ IF HasSlot0
       THEN /\ it' = [kind |-> kind, len |-> len, head |-> nodes[head].next[0]]
            /\ ret' = None
       ELSE /\ ret' = Panic
            /\ UNCHANGED it
    /\ yielded' = <<>>
    /\ UNCHANGED <<max_level, nodes, len, level, phase, items, dfree, uaf, ref>>

Iter == IterStart("iter")

IterMut == IterStart("iter_mut")

\* next advancing along the node's topmost level instead of level 0.
BorrowNext_TopLevel(kind) ==
    /\ Shared
    /\ it.kind = kind
    /\ last' = [op |-> "next", k |-> 0, v |-> 0]
    /\ IF it.head # Null
       THEN LET node == it.head IN
            /\ it' = [it EXCEPT !.head = nodes[node].next[nodes[node].level - 1],
                                !.len = @ - 1]
            /\ yielded' = Append(yielded,
                                 [node |-> node, key |-> nodes[node].key, value |-> None])
            /\ items' = IF kind = "iter_mut" THEN items \cup {node} ELSE items
            /\ ret' = nodes[node].key
       ELSE /\ ret' = None
            /\ UNCHANGED <<it, yielded, items>>
    /\ UNCHANGED <<max_level, nodes, len, level, phase, dfree, uaf, ref>>

\* next that forgets self.len -= 1.
BorrowNext_NoDecrement(kind) ==
    /\ Shared
    /\ it.kind = kind
    /\ last' = [op |-> "next", k |-> 0, v |-> 0]
    /\ IF it.head # Null
       THEN LET node == it.head IN
            /\ it' = [it EXCEPT !.head = nodes[node].next[0]]
            /\ yielded' = Append(yielded,
                                 [node |-> node, key |-> nodes[node].key, value |-> None])
            /\ items' = IF kind = "iter_mut" THEN items \cup {node} ELSE items
            /\ ret' = nodes[node].key
       ELSE /\ ret' = None
            /\ UNCHANGED <<it, yielded, items>>
    /\ UNCHANGED <<max_level, nodes, len, level, phase, dfree, uaf, ref>>

\* Iter::next and IterMut::next: the item is a pair of references into the
\* node, so yielded records the node and no value of its own; IterMut's
\* &mut V stays held in items.
BorrowNext(kind) ==
    /\ Shared
    /\ it.kind = kind
    /\ last' = [op |-> "next", k |-> 0, v |-> 0]
    /\ IF it.head # Null
       THEN LET node == it.head IN
            /\ it' = [it EXCEPT !.head = nodes[node].next[0], !.len = @ - 1]
            /\ yielded' = Append(yielded,
                                 [node |-> node, key |-> nodes[node].key, value |-> None])
            /\ items' = IF kind = "iter_mut" THEN items \cup {node} ELSE items
            /\ ret' = nodes[node].key
       ELSE /\ ret' = None
            /\ UNCHANGED <<it, yielded, items>>
    /\ UNCHANGED <<max_level, nodes, len, level, phase, dfree, uaf, ref>>

IterNext == BorrowNext("iter")

IterMutNext == BorrowNext("iter_mut")

\* The write landing in a copy of the value instead of the node.
WriteItem_IntoCopy(node, v) ==
    /\ Shared
    /\ node \in items
    /\ ref' = [ref EXCEPT ![nodes[node].key] = v]
    /\ last' = [op |-> "write", k |-> nodes[node].key, v |-> v]
    /\ ret' = None
    /\ UNCHANGED <<max_level, nodes, len, level, phase, it, items, yielded, dfree, uaf>>

\* *v = x through an item (k, v) that iter_mut yielded.
WriteItem(node, v) ==
    /\ Shared
    /\ node \in items
    /\ nodes' = [nodes EXCEPT ![node].value = v]
    /\ ref' = [ref EXCEPT ![nodes[node].key] = v]
    /\ last' = [op |-> "write", k |-> nodes[node].key, v |-> v]
    /\ ret' = None
    /\ UNCHANGED <<max_level, len, level, phase, it, items, yielded, dfree, uaf>>

\* The borrow of the list ends: the iterator and its items are gone.
EndBorrow ==
    /\ Shared
    /\ it.kind \in {"iter", "iter_mut"}
    /\ it' = NoIter
    /\ items' = {}
    /\ yielded' = <<>>
    /\ last' = [op |-> "end_borrow", k |-> 0, v |-> 0]
    /\ ret' = None
    /\ UNCHANGED <<max_level, nodes, len, level, phase, dfree, uaf, ref>>

\* -------------------------------------------------------------- teardown
\* The while loop of Drop for SkipList: release every node of the level-0
\* chain from `node` on. bad: a node it reads and releases is not allocated.
RECURSIVE DropChain(_, _, _)
DropChain(h, node, bad) ==
    IF node = Null THEN [h |-> h, bad |-> bad]
    ELSE IF node \notin DOMAIN h THEN [h |-> h, bad |-> TRUE]
    ELSE DropChain(Free(h, node), h[node].next[0], bad)

\* Drop for SkipList: the chain, then the sentinel.
drop(h) ==
    LET c == DropChain(h, h[head].next[0], FALSE) IN
    [h |-> Free(c.h, head), bad |-> c.bad]

\* into_iter forgetting to detach the chain.
Detach_Forgotten(h) == h

\* into_iter detaches the level-0 chain from the sentinel.
Detach(h) == [h EXCEPT ![head].next[0] = Null]

DropList ==
    /\ Exclusive
    /\ phase' = "dropped"
    /\ last' = [op |-> "drop", k |-> 0, v |-> 0]
    /\ IF HasSlot0
       THEN LET d == drop(nodes) IN
            /\ nodes' = d.h
            /\ dfree' = (dfree \/ d.bad)
            /\ uaf' = (uaf \/ d.bad)
            /\ ret' = None
       ELSE /\ ret' = Panic
            /\ UNCHANGED <<nodes, dfree, uaf>>
    /\ UNCHANGED <<max_level, len, level, it, items, yielded, ref>>

\* into_iter(mut self): self is dropped when the call returns. With
\* max_level = 0 line 474 panics, the unwinding drops self, Drop panics
\* at line 489 and the process aborts.
IntoIter ==
    /\ Exclusive
    /\ last' = [op |-> "into_iter", k |-> 0, v |-> 0]
    /\ yielded' = <<>>
    /\ IF HasSlot0
       THEN LET d == drop(Detach(nodes)) IN
            /\ it' = [kind |-> "into_iter", len |-> len, head |-> nodes[head].next[0]]
            /\ nodes' = d.h
            /\ dfree' = (dfree \/ d.bad)
            /\ uaf' = (uaf \/ d.bad)
            /\ phase' = "consumed"
            /\ ret' = None
       ELSE /\ phase' = "aborted"
            /\ ret' = Panic
            /\ UNCHANGED <<it, nodes, dfree, uaf>>
    /\ UNCHANGED <<max_level, len, level, items, ref>>

\* IntoIter::next: Box::from_raw(node), move key and value out, drop the box.
IntoIterNext ==
    /\ phase = "consumed"
    /\ it.kind = "into_iter"
    /\ last' = [op |-> "next", k |-> 0, v |-> 0]
    /\ IF it.head = Null
       THEN /\ ret' = None
            /\ UNCHANGED <<it, yielded, nodes, dfree, uaf>>
       ELSE LET node == it.head IN
            IF node \in DOMAIN nodes
            THEN /\ it' = [it EXCEPT !.head = nodes[node].next[0], !.len = @ - 1]
                 /\ yielded' = Append(yielded, [node |-> node, key |-> nodes[node].key,
                                                value |-> nodes[node].value])
                 /\ nodes' = Free(nodes, node)
                 /\ ret' = nodes[node].key
                 /\ UNCHANGED <<dfree, uaf>>
            ELSE \* the node was released before: its fields are garbage
                 /\ dfree' = TRUE
                 /\ uaf' = TRUE
                 /\ it' = [it EXCEPT !.head = Null, !.len = @ - 1]
                 /\ ret' = Panic
                 /\ UNCHANGED <<yielded, nodes>>
    /\ UNCHANGED <<max_level, len, level, phase, items, ref>>

\* IntoIter has no Drop impl: dropping it releases nothing.
IntoIterDrop ==
    /\ phase = "consumed"
    /\ it.kind = "into_iter"
    /\ it' = [it EXCEPT !.kind = "gone"]
    /\ last' = [op |-> "drop_iter", k |-> 0, v |-> 0]
    /\ ret' = None
    /\ UNCHANGED <<max_level, nodes, len, level, phase, items, yielded, dfree, uaf, ref>>

Next ==
    \/ \E k \in Keys : Get(k)
    \/ \E k \in Keys, v \in Vals : InsertUpdate(k, v)
    \/ \E k \in Keys, v \in Vals : InsertNew(k, v)
    \/ \E k \in Keys, v \in Vals : InsertPanic(k, v)
    \/ \E k \in Keys : Delete(k)
    \/ Iter
    \/ IterMut
    \/ IterNext
    \/ IterMutNext
    \/ \E n \in NodeIds, v \in Vals : WriteItem(n, v)
    \/ EndBorrow
    \/ DropList
    \/ IntoIter
    \/ IntoIterNext
    \/ IntoIterDrop

Spec == Init /\ [][Next]_vars

\* ------------------------------------------------------------ properties
\* The addresses met following next[l] from n (one that is not allocated
\* ends the walk and is listed).
RECURSIVE ChainFrom(_, _, _, _)
ChainFrom(h, n, l, fuel) ==
    IF n = Null \/ fuel = 0 THEN <<>>
    ELSE IF n \notin DOMAIN h THEN <<n>>
    ELSE <<n>> \o ChainFrom(h, h[n].next[l], l, fuel - 1)

\* The level-l chain from the sentinel.
LevelChain(h, l) ==
    IF head \in DOMAIN h /\ l \in DOMAIN h[head].next
    THEN ChainFrom(h, h[head].next[l], l, Cardinality(NodeIds) + 1)
    ELSE <<>>

Range(s) == {s[i] : i \in DOMAIN s}

\* The entries of the reference map, and its keys in ascending order.
Entries == {k \in Keys : ref[k] # None}

RECURSIVE Ascending(_)
Ascending(S) ==
    IF S = {} THEN <<>>
    ELSE LET m == CHOOSE x \in S : \A y \in S : x <= y
         IN <<m>> \o Ascending(S \ {m})

\* The ordinary nodes now allocated, and the highest level among them.
Ordinary(h) == DOMAIN h \ {head}
MaxNodeLevel(h) ==
    IF Ordinary(h) = {} THEN 0
    ELSE CHOOSE x \in {h[n].level : n \in Ordinary(h)} :
            \A n \in Ordinary(h) : h[n].level <= x

\* C1: on a list built with max_level >= 2, after any sequence of inserts,
\* re-inserts and deletes (whatever levels were drawn, also when level
\* overcounts), get(k) is the reference map's value for k, absent included.
C1_GetAgreesWithReference ==
    (phase = "live" /\ max_level >= 2) =>
        \A k \in Keys : get(nodes, level, k) = ref[k]

\* C1 witness: a get found a key while level overcounts after a delete.
C1_Witness ==
    /\ phase = "live" /\ max_level >= 2
    /\ last.op = "get" /\ ret # None
    /\ level > MaxNodeLevel(nodes)
    /\ \E k \in Keys : ref[k] = None /\ get(nodes, level, k) = None

\* C2 (as claimed): in every reachable state insert(k, v) with k present
\* returns the value stored under k and leaves len unchanged, and with k
\* not present returns absent and raises len by exactly one.
C2_InsertReturnsPreviousAndCounts ==
    [][\A k \in Keys :
        (last'.op = "insert" /\ last'.k = k) =>
            IF ref[k] # None
            THEN ret' = ref[k] /\ len' = len
            ELSE ret' = None /\ len' = len + 1]_vars

\* The same statement for the lists built with max_level >= 2, where the
\* level draw of insert has a non-empty range.
C2_FromMaxLevel2 ==
    [][\A k \in Keys :
        (max_level >= 2 /\ last'.op = "insert" /\ last'.k = k) =>
            IF ref[k] # None
            THEN ret' = ref[k] /\ len' = len
            ELSE ret' = None /\ len' = len + 1]_vars

\* The insert of a key not present that panicked instead of returning.
C2_PanicReached ==
    /\ last.op = "insert" /\ ret = Panic
    /\ max_level = 1 /\ len = 0 /\ ref[last.k] = None

\* The nodes holding key k.
NodesOfKey(h, k) == {n \in Ordinary(h) : h[n].key = k}

\* Some forward pointer of an allocated node refers to n.
PointedTo(h, n) == \E m \in DOMAIN h : \E l \in DOMAIN h[m].next : h[m].next[l] = n

\* C3: delete(k) with k present returns the value stored under k, leaves
\* k's node on no level chain (and in no forward pointer), lowers len by
\* exactly one; get(k) is then absent and get of every other key is as
\* before.
C3_DeletePresent ==
    [][\A k \in Keys :
        (last'.op = "delete" /\ last'.k = k /\ ref[k] # None) =>
            /\ ret' = ref[k]
            /\ len' = len - 1
            /\ NodesOfKey(nodes, k) # {}
            /\ \A n \in NodesOfKey(nodes, k) :
                /\ n \notin DOMAIN nodes'
                /\ ~PointedTo(nodes', n)
                /\ \A l \in Slots(max_level) : n \notin Range(LevelChain(nodes', l))
                /\ \E l \in Slots(max_level) : n \in Range(LevelChain(nodes, l))
            /\ get(nodes', level', k) = None
            /\ \A j \in Keys \ {k} : get(nodes', level', j) = get(nodes, level, j)]_vars

\* C3 witness: a delete removed a node that had a predecessor other than
\* the sentinel, level now overcounts, and the other key is still found.
C3_Witness ==
    /\ last.op = "delete" /\ ret # None /\ ref[last.k] = None
    /\ level >= 2 /\ MaxNodeLevel(nodes) < level
    /\ \E j \in Keys : j < last.k /\ ref[j] # None /\ get(nodes, level, j) = ref[j]

\* C4: delete(k) with k not present returns absent and changes nothing of
\* the container: len, level, the allocated nodes, their forward pointers
\* and their values.
C4_DeleteAbsentFrame ==
    [][\A k \in Keys :
        (last'.op = "delete" /\ last'.k = k /\ ref[k] = None) =>
            /\ ret' = None
            /\ nodes' = nodes
            /\ len' = len
            /\ level' = level
            /\ max_level' = max_level]_vars

\* C4 witness: a delete of a key not present ran on a list holding a
\* greater key, at a level its descent walks.
C4_Witness ==
    /\ last.op = "delete" /\ ret = None
    /\ \E j \in Keys : j > last.k /\ ref[j] # None
    /\ level >= 2

\* What the iterator in use has yielded, as <<key, value>> pairs: a
\* borrowing iterator's item refers to the node, a consuming one's holds
\* the key and value moved out of it.
YieldedPairs ==
    [i \in DOMAIN yielded |->
        <<yielded[i].key,
          IF it.kind = "into_iter" THEN yielded[i].value
          ELSE nodes[yielded[i].node].value>>]

\* The entries of the reference map in ascending key order.
RefPairs ==
    LET ks == Ascending(Entries) IN [i \in DOMAIN ks |-> <<ks[i], ref[ks[i]]>>]

\* The last call was a next that returned none.
Exhausted(kind) == it.kind = kind /\ last.op = "next" /\ ret = None

\* C5: a full traversal with iter() yields exactly the entries now in the
\* map, each once, keys strictly ascending, each with its current value.
C5_IterYieldsEntriesAscending ==
    Exhausted("iter") => YieldedPairs = RefPairs

\* C5 witness: a full traversal of a list of two entries, which were
\* inserted in descending key order and lie on different topmost levels.
C5_Witness ==
    /\ Exhausted("iter") /\ Len(yielded) = 2
    /\ nodes[yielded[1].node].level # nodes[yielded[2].node].level

\* C6: a value written through an item of iter_mut() is what get returns
\* for that key, and stays so over every step that is no insert, delete or
\* write of that key; creating and advancing the iterator changes nothing
\* of the list, and the write changes only that node's value.
C6_IterMutWriteVisible ==
    [][/\ last'.op = "write" =>
            /\ get(nodes', level', last'.k) = last'.v
            /\ len' = len /\ level' = level
            /\ DOMAIN nodes' = DOMAIN nodes
            /\ \A n \in DOMAIN nodes :
                /\ nodes'[n].key = nodes[n].key
                /\ nodes'[n].level = nodes[n].level
                /\ nodes'[n].next = nodes[n].next
                /\ nodes[n].key # last'.k => nodes'[n].value = nodes[n].value
       /\ (it'.kind = "iter_mut" /\ last'.op \in {"iter_mut", "next"}) =>
            /\ nodes' = nodes /\ len' = len /\ level' = level
       /\ \A k \in Keys :
            (phase' = "live" /\ ~(last'.op \in {"insert", "delete", "write"} /\ last'.k = k))
                => get(nodes', level', k) = get(nodes, level, k)]_vars

\* C6 witness: after a full iter_mut traversal of two entries a value was
\* written through one of the items, and get returns it for that key and
\* another value for the other key.
C6_Witness ==
    /\ last.op = "write" /\ it.kind = "iter_mut" /\ it.head = Null
    /\ Len(yielded) = 2
    /\ get(nodes, level, last.k) = last.v
    /\ \E j \in Keys \ {last.k} : get(nodes, level, j) \notin {None, last.v}

\* C7: a consuming iteration run until next returns none has yielded every
\* entry once in ascending key order, and by then every ordinary node and
\* the sentinel was released; at no point of the run is a node released
\* twice or a released node read.
C7_IntoIterYieldsAllReleasesOnce ==
    /\ (phase = "consumed" => ~dfree /\ ~uaf /\ head \notin DOMAIN nodes)
    /\ (phase = "consumed" /\ Exhausted("into_iter")) =>
            /\ YieldedPairs = RefPairs
            /\ DOMAIN nodes = {}

\* C7 witness: a consuming iteration of two entries ran to its end.
C7_Witness ==
    phase = "consumed" /\ Exhausted("into_iter") /\ Len(yielded) = 2

\* C8 (as claimed): once a consuming iterator was dropped, whatever it had
\* yielded, no node the container allocated is still allocated.
C8_DroppedIntoIterReleasesRest ==
    it.kind = "gone" => DOMAIN nodes = {}

\* C9: the len counter of the iterator in use (its size hint) is the number
\* of entries not yet yielded: the entry count at the start, one less per
\* item, never below 0, and 0 exactly when next returns none.
C9_SizeHintExact ==
    it.kind \in {"iter", "iter_mut", "into_iter"} =>
        /\ it.len = Cardinality(Entries) - Len(yielded)
        /\ it.len >= 0
        /\ (it.len = 0 <=> it.head = Null)
        /\ (last.op = "next" /\ ret = None) => it.len = 0
        /\ (last.op = "next" /\ ret # None) => it.len < Cardinality(Entries)

\* C9 witness: an iterator over two entries has yielded one of them.
C9_Witness ==
    /\ it.kind \in {"iter", "iter_mut", "into_iter"}
    /\ last.op = "next" /\ Len(yielded) = 1 /\ it.len = 1

\* C10: a list built with max_level = 0 stays empty: len is 0 and get is
\* absent for every key after any calls, and an insert attempt adds no
\* entry and leaves the container as it was.
C10_MaxLevelZeroStaysEmpty ==
    [][max_level = 0 =>
        /\ len = 0 /\ len' = 0
        /\ Ordinary(nodes) = {} /\ Ordinary(nodes') = {}
        /\ phase' = "live" => \A k \in Keys : get(nodes', level', k) = None
        /\ last'.op = "insert" =>
            /\ nodes' = nodes /\ len' = len /\ level' = level
            /\ ret' \notin Vals]_vars

\* C10 witness: an insert was attempted on a list built with max_level = 0.
C10_Witness ==
    max_level = 0 /\ last.op = "insert" /\ len = 0 /\ phase = "live"

\* C11 (as claimed): on a list built with max_level >= 1 every insert call
\* returns: for a key not present the draw has a level to choose, a node
\* holding the key is created and linked at level 0, and absent is returned.
C11_InsertCompletes ==
    [][\A k \in Keys :
        (max_level >= 1 /\ last'.op = "insert" /\ last'.k = k) =>
            /\ ret' # Panic
            /\ ref[k] = None =>
                /\ random_level(max_level) # {}
                /\ ret' = None
                /\ \E n \in Ordinary(nodes') \ Ordinary(nodes) :
                    /\ nodes'[n].key = k
                    /\ n \in Range(LevelChain(nodes', 0))]_vars

\* The same statement for the lists built with max_level >= 2.
C11_FromMaxLevel2 ==
    [][\A k \in Keys :
        (max_level >= 2 /\ last'.op = "insert" /\ last'.k = k) =>
            /\ ret' # Panic
            /\ ref[k] = None =>
                /\ random_level(max_level) # {}
                /\ ret' = None
                /\ \E n \in Ordinary(nodes') \ Ordinary(nodes) :
                    /\ nodes'[n].key = k
                    /\ n \in Range(LevelChain(nodes', 0))]_vars

\* C12 (as claimed): once the container was dropped, in whatever state, no
\* node is still allocated (the remaining ordinary nodes and the sentinel
\* were released) and none was released twice.
C12_DropReleasesAllOnce ==
    phase = "dropped" => DOMAIN nodes = {} /\ ~dfree /\ ~uaf

\* The same statement for the lists built with max_level >= 1, whose
\* sentinel has the slot next[0] that Drop reads.
C12_FromMaxLevel1 ==
    (phase = "dropped" /\ max_level >= 1) => DOMAIN nodes = {} /\ ~dfree /\ ~uaf

\* A list holding two entries was dropped.
C12_DroppedWithEntries ==
    phase = "dropped" /\ len = 2 /\ DOMAIN nodes = {}

\* C13 (as claimed): level is the maximum of the levels of the live nodes,
\* and 0 when the list has no entries.
C13_LevelIsMaxNodeLevel ==
    phase = "live" => level = MaxNodeLevel(nodes)

\* C13 (amended): level is never below the maximum of the levels of the
\* live nodes (0 for the empty list); a new list has level 0, an insert
\* into a list where the two are equal keeps them equal, and a delete
\* leaves level as it is, so that level can overcount after a delete.
C13_LevelBoundsMaxNodeLevel ==
    [][/\ level >= MaxNodeLevel(nodes)
       /\ phase' = "live" => level' >= MaxNodeLevel(nodes')
       /\ (last.op = "new" /\ len = 0) => level = 0
       /\ (last'.op = "insert" /\ level = MaxNodeLevel(nodes))
            => level' = MaxNodeLevel(nodes')
       /\ last'.op = "delete" => level' = level]_vars

\* C13 witness: an insert raised level to the level of the node it
\* created, above the level of the node already there.
C13_Witness ==
    /\ last.op = "insert" /\ ret = None /\ len = 2
    /\ level = MaxNodeLevel(nodes)
    /\ \E n \in Ordinary(nodes) : nodes[n].key = last.k /\ nodes[n].level = level
    /\ \E n \in Ordinary(nodes) : nodes[n].level < level

\* C14: level never decreases: delete, get and the update path of insert
\* leave it unchanged, and the insert of a new key leaves it unchanged or
\* raises it to the level drawn for the new node.
C14_LevelNeverDecreases ==
    [][/\ level' >= level
       /\ last'.op \in {"delete", "get"} => level' = level
       /\ \A k \in Keys :
            (last'.op = "insert" /\ last'.k = k) =>
                IF ref[k] # None THEN level' = level
                ELSE ret' = Panic \/
                     \E n \in Ordinary(nodes') \ Ordinary(nodes) :
                        /\ nodes'[n].key = k
                        /\ level' = IF nodes'[n].level > level
                                    THEN nodes'[n].level ELSE level]_vars

\* C14 witness: a delete removed the only node of the topmost level from a
\* list that still holds an entry, and level stayed.
C14_Witness ==
    /\ last.op = "delete" /\ ret # None /\ len = 1
    /\ level = 2 /\ MaxNodeLevel(nodes) = 1

\* Following next[l] from the sentinel ends at None, on allocated nodes
\* only, within as many steps as there are addresses.
ChainEnds(h, l) ==
    LET c == LevelChain(h, l) IN
    /\ Len(c) <= Cardinality(NodeIds)
    /\ Range(c) \subseteq Ordinary(h)
    /\ Cardinality(Range(c)) = Len(c)

\* C15: at every level l below level the chain from the sentinel is finite
\* and free of cycles and its keys are strictly ascending; no key is held
\* by two live nodes.
C15_ChainsStrictlyAscending ==
    phase = "live" =>
        /\ \A l \in Slots(max_level) :
            /\ ChainEnds(nodes, l)
            /\ LET c == LevelChain(nodes, l) IN
               \A i \in 1..(Len(c) - 1) : nodes[c[i]].key < nodes[c[i + 1]].key
        /\ \A n, m \in Ordinary(nodes) : nodes[n].key = nodes[m].key => n = m

\* C15 witness: two nodes follow each other on the chains of two levels.
C15_Witness ==
    /\ phase = "live" /\ level = 2
    /\ Len(LevelChain(nodes, 0)) = 2 /\ Len(LevelChain(nodes, 1)) = 2

\* C16: a live node is on the level-l chain exactly for the levels l below
\* its own level, so on every lower level too and on level 0, and its
\* forward pointers at and above its own level are empty.
C16_NodeOnChainsBelowItsLevel ==
    phase = "live" =>
        \A n \in Ordinary(nodes) :
            /\ nodes[n].level >= 1
            /\ \A l \in Slots(max_level) :
                /\ (n \in Range(LevelChain(nodes, l))) <=> (l < nodes[n].level)
                /\ l >= nodes[n].level => nodes[n].next[l] = Null

\* C16 witness: a node of level 2 and a node of level 1 are live.
C16_Witness ==
    /\ phase = "live" /\ max_level = 3
    /\ \E n, m \in Ordinary(nodes) : nodes[n].level = 2 /\ nodes[m].level = 1

\* The allocated nodes whose level-l forward pointer is n.
Preds(h, l, n) == {m \in DOMAIN h : h[m].next[l] = n}

\* C17: at each level a node is the successor of at most one node, the
\* sentinel counted.
C17_OnePredecessorPerLevel ==
    phase = "live" =>
        \A l \in Slots(max_level) : \A n \in NodeIds :
            Cardinality(Preds(nodes, l, n)) <= 1

\* C17 witness: at level 1 a node follows another node, not the sentinel.
C17_Witness ==
    /\ phase = "live"
    /\ \E n, m \in Ordinary(nodes) : Preds(nodes, 1, n) = {m}

\* C18: insert(k, v) with k present changes only the value held by k's
\* node: the allocated addresses, every node's key, level and forward
\* pointers, every other node's value, len and level stay as they were.
C18_UpdateChangesOnlyValue ==
    [][\A k \in Keys :
        (last'.op = "insert" /\ last'.k = k /\ ref[k] # None) =>
            /\ DOMAIN nodes' = DOMAIN nodes
            /\ len' = len /\ level' = level
            /\ \A n \in DOMAIN nodes :
                /\ nodes'[n].key = nodes[n].key
                /\ nodes'[n].level = nodes[n].level
                /\ nodes'[n].next = nodes[n].next
                /\ nodes[n].key # k => nodes'[n].value = nodes[n].value
            /\ \A n \in Ordinary(nodes) :
                nodes[n].key = k =>
                    nodes'[n].value = last'.v /\ ret' = nodes[n].value]_vars

\* C18 witness: an insert replaced the value of a node of level 2 that has
\* a successor, with a value different from the old one.
C18_Witness ==
    /\ last.op = "insert" /\ ret \notin {None, Panic, last.v} /\ len = 2
    /\ \E n \in Ordinary(nodes) :
        /\ nodes[n].key = last.k /\ nodes[n].value = last.v
        /\ nodes[n].level = 2 /\ nodes[n].next[0] # Null

\* C19: for max_level >= 2 every node has a level in 1..max_level-1,
\* 0 <= level <= max_level, and the slot max_level-1 of the sentinel and of
\* every node is empty.
C19_TopSlotNeverUsed ==
    (phase = "live" /\ max_level >= 2) =>
        /\ \A n \in Ordinary(nodes) : nodes[n].level \in 1..(max_level - 1)
        /\ level \in 0..max_level
        /\ level <= max_level - 1
        /\ \A n \in DOMAIN nodes : nodes[n].next[max_level - 1] = Null

\* C19 witness: a node of the highest level that can be drawn is live.
C19_Witness ==
    /\ phase = "live" /\ max_level = MaxLevelCap /\ level = max_level - 1
    /\ \E n \in Ordinary(nodes) :
        nodes[n].level = max_level - 1 /\ nodes[head].next[max_level - 2] = n

\* Every forward pointer of an allocated node is None or an allocated
\* ordinary node.
NoDangling(h) ==
    \A n \in DOMAIN h : \A l \in DOMAIN h[n].next :
        h[n].next[l] = Null \/ h[n].next[l] \in Ordinary(h)

\* The allocated ordinary nodes are the nodes of the level-0 chain, len
\* counts them, and no forward pointer refers to a released node.
AllocatedIsChain(h, n) ==
    /\ ChainEnds(h, 0)
    /\ Ordinary(h) = Range(LevelChain(h, 0))
    /\ Cardinality(Ordinary(h)) = n
    /\ NoDangling(h)

\* C20: while the list is live, the allocated ordinary nodes are the nodes
\* of the level-0 chain and len is their number, no forward pointer of the
\* sentinel or of a live node refers to a released node, a node is
\* allocated only by the insert of a key that was absent, and a node is
\* released only by the delete of its key.
C20_AllocatedNodesAreTheChain ==
    [][/\ phase = "live" => AllocatedIsChain(nodes, len)
       /\ phase' = "live" =>
            /\ AllocatedIsChain(nodes', len')
            /\ \A n \in Ordinary(nodes') \ Ordinary(nodes) :
                /\ last'.op = "insert" /\ ret' = None
                /\ ref[last'.k] = None /\ nodes'[n].key = last'.k
                /\ Ordinary(nodes) \subseteq Ordinary(nodes')
            /\ \A n \in Ordinary(nodes) \ Ordinary(nodes') :
                /\ last'.op = "delete" /\ ret' # None
                /\ nodes[n].key = last'.k
                /\ Ordinary(nodes') = Ordinary(nodes) \ {n}]_vars

\* C20 witness: a delete released the node that followed a node of level 2,
\* and that node is still live and on the chains of both levels.
C20_Witness ==
    /\ phase = "live" /\ last.op = "delete" /\ ret # None /\ len = 1
    /\ \E n \in Ordinary(nodes) :
        /\ nodes[n].level = 2 /\ nodes[n].key < last.k
        /\ nodes[head].next[1] = n /\ level = 2

====
